---- MODULE Spec2Model ----
(***************************************************************************)
(* A model of src/app.py: the POST /summarize handler, the helpers it      *)
(* calls (chunk_list, the two prompt builders, call_gemini_api) and the    *)
(* library behaviour it relies on (DataFrame construction, groupby,        *)
(* dropna, str.strip, json.loads, SummaryResponse.parse_obj).              *)
(*                                                                         *)
(* Text is modelled as a sequence of one-character strings, so that        *)
(* slicing, joining, stripping and lexicographic comparison are computed.  *)
(* Column names and the QUESTIONS texts are only ever compared for         *)
(* equality and are kept as whole strings.  JSON null / Python None is the *)
(* value None.                                                             *)
(***************************************************************************)
EXTENDS Integers, Sequences, FiniteSets, TLC

VARIABLES
    payload,                \* request.get_json(): the request body
    pc,                     \* where the handler stands
    status,                 \* HTTP status of the response (0: none yet)
    body,                   \* the response body
    cohorts,                \* df.groupby("Cohort"): <<key, row indices>> groups
    ci,                     \* position of `for cohort, group in cohorts`
    qi,                     \* position of `for q in QUESTIONS`
    ki,                     \* position of `for chunk in chunks`
    responses,              \* the response batch of the (cohort, question) pair
    chunks,                 \* list(chunk_list(responses, ...)) of the pair
    themes_accum,
    all_text_for_recs,
    summary_output,
    recommendations_output,
    calls,                  \* every client.models.generate_content invocation
    lst,                    \* the arguments of a direct chunk_list(lst, n) call
    n,
    yielded                 \* and what it yielded

vars == <<payload, pc, status, body, cohorts, ci, qi, ki, responses, chunks, themes_accum,
          all_text_for_recs, summary_output, recommendations_output, calls,
          lst, n, yielded>>

----------------------------------------------------------------------------
(* Bounds of the model.                                                    *)

\* rows of a small table
MaxRows == 2
\* chunks a (cohort, question) batch of a long table is split into
MaxChunks == 2
\* length of the sequences handed to chunk_list directly
MaxLen == 4
\* chunk sizes handed to chunk_list directly
MaxN == 3

----------------------------------------------------------------------------
(* Program constants.                                                      *)

MAX_RESPONSES_PER_CHUNK == 20
\* raw_text[:200]
RAW_EXCERPT_LEN == 200
\* themes_accum[:3]
MAX_THEMES == 3

Q1 == "Briefly explain your rating. What aspects of the program influenced your score the most?"
Q2 == "OPTIONAL: Please share any additional comments or suggestions you have for improving the AiCE program."
Q3 == "OPTIONAL: What additional support or resources would you like to see introduced to enhance your experience in the program further? [open-ended]"
Q4 == "Please describe in detail what challenges you experienced"

QUESTIONS ==
    << [full |-> Q1, short |-> "program satisfaction", col |-> Q1],
       [full |-> Q2, short |-> "learning experience",  col |-> Q2],
       [full |-> Q3, short |-> "program support",      col |-> Q3],
       [full |-> Q4, short |-> "payment process",      col |-> Q4] >>

\* "Parse Error"
PARSE_ERROR == <<"P", "a", "r", "s", "e", " ", "E", "r", "r", "o", "r">>
\* "Failed to parse JSON output: "
FAILED_JSON == <<"F", "a", "i", "l", "e", "d", " ", "t", "o", " ", "p", "a", "r", "s", "e", " ",
                 "J", "S", "O", "N", " ", "o", "u", "t", "p", "u", "t", ":", " ">>
\* "Failed to parse recommendations: "
FAILED_RECS == <<"F", "a", "i", "l", "e", "d", " ", "t", "o", " ", "p", "a", "r", "s", "e", " ",
                 "r", "e", "c", "o", "m", "m", "e", "n", "d", "a", "t", "i", "o", "n", "s", ":", " ">>
\* "Recommendations response is not a list"
NOT_A_LIST == <<"R", "e", "c", "o", "m", "m", "e", "n", "d", "a", "t", "i", "o", "n", "s", " ",
                "r", "e", "s", "p", "o", "n", "s", "e", " ", "i", "s", " ", "n", "o", "t", " ",
                "a", " ", "l", "i", "s", "t">>

----------------------------------------------------------------------------
(* Python values and text.                                                 *)

None == <<"None">>

Min(a, b) == IF a <= b THEN a ELSE b

\* s[:k]
Slice(s, k) == SubSeq(s, 1, Min(k, Len(s)))

RECURSIVE Concat(_)
\* the concatenation of a sequence of sequences
Concat(ss) == IF ss = <<>> THEN <<>> ELSE Head(ss) \o Concat(Tail(ss))

RECURSIVE Join(_, _)
\* sep.join(ss)
Join(sep, ss) ==
    IF ss = <<>> THEN <<>>
    ELSE IF Len(ss) = 1 THEN ss[1]
    ELSE ss[1] \o sep \o Join(sep, Tail(ss))

Whitespace == {" ", "\n", "\t", "\r"}

RECURSIVE LStrip(_)
LStrip(s) == IF s # <<>> /\ Head(s) \in Whitespace THEN LStrip(Tail(s)) ELSE s

RECURSIVE RStrip(_)
RStrip(s) ==
    IF s # <<>> /\ s[Len(s)] \in Whitespace THEN RStrip(SubSeq(s, 1, Len(s) - 1)) ELSE s

\* s.strip()
Strip(s) == RStrip(LStrip(s))

\* the characters cohort identifiers are written in, in code point order
Alphabet == <<"0", "1", "2", "9", "A", "B", "C", "a", "b", "c">>

Ord(c) == CHOOSE i \in DOMAIN Alphabet : Alphabet[i] = c

RECURSIVE StrLess(_, _)
\* a < b on Python str: lexicographic by code point, a proper prefix first
StrLess(a, b) ==
    IF b = <<>> THEN FALSE
    ELSE IF a = <<>> THEN TRUE
    ELSE IF Head(a) = Head(b) THEN StrLess(Tail(a), Tail(b))
    ELSE Ord(Head(a)) < Ord(Head(b))

----------------------------------------------------------------------------
(* chunk_list                                                              *)

\* a chunk_list whose slices are one element too long: l[i:i + size + 1]
chunk_list_overlap(l, size) ==
    LET count == (Len(l) + size - 1) \div size
    IN  [k \in 1..count |-> SubSeq(l, (k - 1) * size + 1, Min(k * size + 1, Len(l)))]

\* list(chunk_list(l, size)): l[i:i + size] for i in range(0, len(l), size)
chunk_list(l, size) ==
    LET count == (Len(l) + size - 1) \div size          \* len(range(0, len(l), size))
    IN  [k \in 1..count |-> SubSeq(l, (k - 1) * size + 1, Min(k * size, Len(l)))]

----------------------------------------------------------------------------
(* JSON.  A parsed JSON value is a tagged record: a str, a list or a dict  *)
(* (its members a sequence of <<key, value>> pairs).                       *)

PyStr(s) == [t |-> "str", v |-> s]
PyList(items) == [t |-> "list", v |-> items]
PyDict(members) == [t |-> "dict", v |-> members]
Missing == [t |-> "missing", v |-> <<>>]

K_THEMES == <<"t", "h", "e", "m", "e", "s">>
K_THEME == <<"t", "h", "e", "m", "e">>
K_SUMMARY == <<"s", "u", "m", "m", "a", "r", "y">>
K_SAMPLES == <<"s", "a", "m", "p", "l", "e", "s">>
K_RECOMMENDATIONS == <<"r", "e", "c", "o", "m", "m", "e", "n", "d", "a", "t", "i", "o", "n", "s">>

RECURSIVE dumps(_)
\* the compact JSON text of a value
dumps(x) ==
    CASE x.t = "str"  -> <<"\"">> \o x.v \o <<"\"">>
      [] x.t = "list" -> <<"[">> \o Join(<<",">>, [i \in 1..Len(x.v) |-> dumps(x.v[i])]) \o <<"]">>
      [] x.t = "dict" -> <<"{">> \o Join(<<",">>, [i \in 1..Len(x.v) |->
                                <<"\"">> \o x.v[i][1] \o <<"\"">> \o <<":">> \o dumps(x.v[i][2])])
                               \o <<"}">>

Digits == <<"0", "1", "2", "3", "4", "5", "6", "7", "8", "9">>
Digit(k) == Digits[k + 1]

\* the i-th theme object a model answer may hold
ThemeValue(i) ==
    PyDict(<< <<K_THEME, PyStr(<<"T", Digit(i)>>)>>,
              <<K_SUMMARY, PyStr(<<"S", Digit(i)>>)>>,
              <<K_SAMPLES, PyList(<<PyStr(<<"a", Digit(i)>>), PyStr(<<"b", Digit(i)>>)>>)>> >>)

\* {"themes": [theme 1 .. theme k], "recommendations": []}
SummaryValue(k) ==
    PyDict(<< <<K_THEMES, PyList([i \in 1..k |-> ThemeValue(i)])>>,
              <<K_RECOMMENDATIONS, PyList(<<>>)>> >>)

\* ["r1", "r2"]
VAL_RECS == PyList(<<PyStr(<<"r", "1">>), PyStr(<<"r", "2">>)>>)
VAL_FEW == SummaryValue(MAX_THEMES - 1)
VAL_MANY == SummaryValue(MAX_THEMES + 1)

\* the JSON documents the model may answer with
JsonUniverse == {VAL_RECS, VAL_FEW, VAL_MANY}
Serialized == [x \in JsonUniverse |-> dumps(x)]

\* json.loads(raw): the value whose text raw is (surrounding whitespace is
\* allowed), or JSONDecodeError
json_loads(raw) ==
    LET s == Strip(raw)
    IN  IF \E x \in JsonUniverse : Serialized[x] = s
        THEN [ok |-> TRUE, value |-> CHOOSE x \in JsonUniverse : Serialized[x] = s]
        ELSE [ok |-> FALSE, value |-> Missing]

\* dict.get with the last of equal keys winning
Get(d, key) ==
    LET at == {i \in DOMAIN d.v : d.v[i][1] = key}
    IN  IF at = {} THEN Missing ELSE d.v[CHOOSE i \in at : \A j \in at : j <= i][2]

IsListOfStr(x) == x.t = "list" /\ \A i \in DOMAIN x.v : x.v[i].t = "str"

\* class Theme(BaseModel)
IsTheme(x) ==
    /\ x.t = "dict"
    /\ Get(x, K_THEME).t = "str"
    /\ Get(x, K_SUMMARY).t = "str"
    /\ IsListOfStr(Get(x, K_SAMPLES))

\* class SummaryResponse(BaseModel)
IsSummaryResponse(x) ==
    /\ x.t = "dict"
    /\ Get(x, K_THEMES).t = "list"
    /\ \A i \in DOMAIN Get(x, K_THEMES).v : IsTheme(Get(x, K_THEMES).v[i])
    /\ IsListOfStr(Get(x, K_RECOMMENDATIONS))

\* SummaryResponse.parse_obj(x): the typed object, or ValidationError
parse_obj(x) ==
    IF IsSummaryResponse(x)
    THEN [ok |-> TRUE,
          themes |-> [i \in DOMAIN Get(x, K_THEMES).v |->
                        LET th == Get(x, K_THEMES).v[i]
                        IN  [theme |-> Get(th, K_THEME).v,
                             summary |-> Get(th, K_SUMMARY).v,
                             samples |-> [j \in DOMAIN Get(th, K_SAMPLES).v |->
                                            Get(th, K_SAMPLES).v[j].v]]]]
    ELSE [ok |-> FALSE, themes |-> <<>>]

----------------------------------------------------------------------------
(* The external text-generation service: what one generate_content call    *)
(* may do.                                                                 *)

TextReply(s) == [kind |-> "text", text |-> s, class |-> ""]
ErrorReply(c) == [kind |-> "error", text |-> <<>>, class |-> c]

\* an answer cut short (maxOutputTokens): its closing brace is missing
Truncated(s) == SubSeq(s, 1, Len(s) - 1)

ModelTexts ==
    { Serialized[VAL_RECS],
      <<" ">> \o Serialized[VAL_FEW] \o <<"\n">>,
      Serialized[VAL_MANY],
      Truncated(Serialized[VAL_MANY]) }

\* a rate-limit-class error, and any other error
ModelErrors == {"RESOURCE_EXHAUSTED", "INTERNAL"}

ModelReplies == {TextReply(s) : s \in ModelTexts} \cup {ErrorReply(c) : c \in ModelErrors}

----------------------------------------------------------------------------
(* Request payloads.                                                       *)

B == <<"B">>
AC == <<"A", "C">>

\* the text of row i in column j
Text(i, j) == <<Digit(i \div 10), Digit(i % 10), <<"x", "y", "z">>[j]>>

RowKinds == {"full", "blank", "null", "orphan", "silent"}

\* row i of a table: <<first column, cohort column, third column>>
Row(kind, i) ==
    CASE kind = "full"   -> <<Text(i, 1), B, Text(i, 3)>>
      [] kind = "blank"  -> <<<<>>, AC, Text(i, 3)>>
      [] kind = "null"   -> <<None, AC, Text(i, 3)>>
      [] kind = "orphan" -> <<Text(i, 1), None, Text(i, 3)>>
      [] kind = "silent" -> <<None, B, None>>

H_STD == <<Q2, "Cohort", Q1>>
H_LOWER == <<Q2, "cohort", Q1>>
H_ONE == <<Q4, "Cohort", "Timestamp">>

HeaderChoices == {H_STD, H_LOWER, H_ONE}

SmallTables ==
    UNION {{[i \in 1..k |-> Row(kinds[i], i)] : kinds \in [1..k -> RowKinds]} : k \in 0..MaxRows}

\* row counts around the chunk size: one short of a new chunk, and one into it
LongSizes ==
    {c * MAX_RESPONSES_PER_CHUNK : c \in 1..(MaxChunks - 1)}
        \cup {c * MAX_RESPONSES_PER_CHUNK + 1 : c \in 1..(MaxChunks - 1)}

LongTables == {[i \in 1..size |-> Row("null", i)] : size \in LongSizes}

Payloads ==
    {<<>>}
        \cup {[headers |-> H_STD], [rows |-> <<Row("full", 1)>>]}
        \cup {[headers |-> h, rows |-> r] : h \in HeaderChoices, r \in SmallTables}
        \cup {[headers |-> H_STD, rows |-> r] : r \in LongTables}

----------------------------------------------------------------------------
(* pandas.                                                                 *)

\* pd.DataFrame(rows, columns=headers)
DataFrame(rows, headers) == [columns |-> headers, rows |-> rows]

Columns(d) == {d.columns[j] : j \in DOMAIN d.columns}

ColIndex(d, name) == CHOOSE j \in DOMAIN d.columns : d.columns[j] = name

\* the values of column `name` in the rows `index`, in that order
Column(d, name, index) == [k \in DOMAIN index |-> d.rows[index[k]][ColIndex(d, name)]]

\* Series.dropna().tolist()
dropna(s) == SelectSeq(s, LAMBDA x : x # None)

RECURSIVE Sorted(_)
\* the strings of a set in ascending order
Sorted(S) ==
    IF S = {} THEN <<>>
    ELSE LET least == CHOOSE a \in S : \A b \in S : ~StrLess(b, a)
         IN  <<least>> \o Sorted(S \ {least})

RECURSIVE FirstSeen(_, _)
\* the distinct strings of a sequence in order of first appearance
FirstSeen(s, seen) ==
    IF s = <<>> THEN <<>>
    ELSE IF Head(s) \in seen THEN FirstSeen(Tail(s), seen)
    ELSE <<Head(s)>> \o FirstSeen(Tail(s), seen \cup {Head(s)})

AllRows(d) == [i \in DOMAIN d.rows |-> i]

\* the rows of d whose `by` value is key, in row order
RowsOf(d, by, key) ==
    SelectSeq(AllRows(d), LAMBDA i : d.rows[i][ColIndex(d, by)] = key)

\* a groupby that keeps the keys in order of first appearance (sort=False)
groupby_unsorted(d, by) ==
    LET keys == FirstSeen(dropna(Column(d, by, AllRows(d))), {})
    IN  [g \in DOMAIN keys |-> [key |-> keys[g], index |-> RowsOf(d, by, keys[g])]]

\* d.groupby(by), iterated: one group per distinct non-null key, keys
\* ascending (sort=True), rows with a null key in no group (dropna=True)
groupby(d, by) ==
    LET keys == Sorted({k \in {d.rows[i][ColIndex(d, by)] : i \in DOMAIN d.rows} : k # None})
    IN  [g \in DOMAIN keys |-> [key |-> keys[g], index |-> RowsOf(d, by, keys[g])]]

----------------------------------------------------------------------------
(* Prompts and the model invoker.                                          *)

\* The prompt is a fixed template around the cohort, the question and the
\* responses joined by "\n---\n"; it is kept as the values it embeds.
generate_summary_prompt(cohort, question_full, resps) ==
    [kind |-> "summary", cohort |-> cohort, question |-> question_full, responses |-> resps]

generate_recommendations_prompt(cohort, all_feedback) ==
    [kind |-> "recommendations", cohort |-> cohort, question |-> "", responses |-> all_feedback]

\* call_gemini_api(prompt_text), given what its one generate_content
\* invocation did: the stripped text, or the exception it raised
call_gemini_api(reply) ==
    IF reply.kind = "error"
    THEN [raised |-> TRUE, error |-> reply.class, text |-> <<>>]
    ELSE [raised |-> FALSE, error |-> "", text |-> Strip(reply.text)]

\* str(e) of the two parse failures (the libraries' messages, kept by class)
E_JSON == <<"J", "S", "O", "N", "D", "e", "c", "o", "d", "e", "E", "r", "r", "o", "r">>
E_VALIDATION == <<"V", "a", "l", "i", "d", "a", "t", "i", "o", "n", "E", "r", "r", "o", "r">>

----------------------------------------------------------------------------
(* The handler.  A frame holds its local variables; the operators below    *)
(* are the stretches of summarize() between two generate_content calls.    *)

Frame ==
    [pc |-> pc, status |-> status, body |-> body, cohorts |-> cohorts, ci |-> ci, qi |-> qi,
     ki |-> ki, responses |-> responses, chunks |-> chunks, themes_accum |-> themes_accum,
     all_text_for_recs |-> all_text_for_recs, summary_output |-> summary_output,
     recommendations_output |-> recommendations_output]

\* df = pd.DataFrame(data["rows"], columns=data["headers"])
df == DataFrame(payload.rows, payload.headers)

\* except Exception as e: return jsonify({"error": str(e)}), 500
internal_error(f, message) ==
    [f EXCEPT !.pc = "done", !.status = 500, !.body = [error |-> message]]

\* for cohort, group in cohorts: all_text_for_recs = []
for_cohort(f) ==
    IF f.ci < Len(f.cohorts)
    THEN [f EXCEPT !.ci = @ + 1, !.qi = 0, !.all_text_for_recs = <<>>, !.pc = "for_question"]
    ELSE [f EXCEPT !.pc = "return"]

\* for q in QUESTIONS: ... chunks = list(chunk_list(...)); themes_accum = []
for_question(f, d) ==
    IF f.qi < Len(QUESTIONS)
    THEN LET q == QUESTIONS[f.qi + 1]
             group == f.cohorts[f.ci]
             resps == IF q.col \in Columns(d) THEN dropna(Column(d, q.col, group.index)) ELSE <<>>
         IN  IF q.col \notin Columns(d) \/ resps = <<>>
             THEN [f EXCEPT !.qi = @ + 1]
             ELSE [f EXCEPT !.qi = @ + 1,
                            !.responses = resps,
                            !.all_text_for_recs = @ \o resps,
                            !.chunks = chunk_list(resps, MAX_RESPONSES_PER_CHUNK),
                            !.themes_accum = <<>>,
                            !.ki = 0,
                            !.pc = "for_chunk"]
    ELSE [f EXCEPT !.pc = "recs"]

\* for chunk in chunks: prompt_text = ...; raw_text = call_gemini_api(prompt_text)
for_chunk(f) ==
    IF f.ki < Len(f.chunks)
    THEN [f EXCEPT !.ki = @ + 1, !.pc = "call_summary"]
    ELSE [f EXCEPT !.pc = "emit_themes"]

\* a row whose samples are joined by a space
theme_row_spaced(cohort, q, theme) ==
    <<cohort, q.full, q.short, theme.theme, theme.summary, Join(<<" ">>, theme.samples)>>

\* [cohort, q["full"], q["short"], theme.theme, theme.summary, "\n".join(theme.samples)]
theme_row(cohort, q, theme) ==
    <<cohort, q.full, q.short, theme.theme, theme.summary, Join(<<"\n">>, theme.samples)>>

\* an emit that appends every accumulated theme
emit_themes_uncapped(f) ==
    [f EXCEPT !.summary_output =
                  @ \o [i \in 1..Len(f.themes_accum) |->
                          theme_row(f.cohorts[f.ci].key, QUESTIONS[f.qi], f.themes_accum[i])],
              !.pc = "for_question"]

\* for theme in themes_accum[:3]: summary_output.append([...])
emit_themes(f) ==
    [f EXCEPT !.summary_output =
                  @ \o [i \in 1..Min(MAX_THEMES, Len(f.themes_accum)) |->
                          theme_row(f.cohorts[f.ci].key, QUESTIONS[f.qi], f.themes_accum[i])],
              !.pc = "for_question"]

\* if all_text_for_recs: rec_prompt = ...; raw_rec_text = call_gemini_api(rec_prompt)
recs(f) ==
    IF f.all_text_for_recs # <<>>
    THEN [f EXCEPT !.pc = "call_rec"]
    ELSE [f EXCEPT !.pc = "for_cohort"]

\* return jsonify({"summary": summary_output, "recommendations": recommendations_output})
return(f) ==
    [f EXCEPT !.pc = "done", !.status = 200,
              !.body = [summary |-> f.summary_output,
                        recommendations |-> f.recommendations_output]]

AtCall(f) == f.pc \in {"call_summary", "call_rec", "done"}

RECURSIVE Run(_, _)
\* the handler run from frame f up to its next generate_content call or its return
Run(f, d) ==
    IF AtCall(f) THEN f
    ELSE Run(CASE f.pc = "for_cohort"   -> for_cohort(f)
               [] f.pc = "for_question" -> for_question(f, d)
               [] f.pc = "for_chunk"    -> for_chunk(f)
               [] f.pc = "emit_themes"  -> emit_themes(f)
               [] f.pc = "recs"         -> recs(f)
               [] f.pc = "return"       -> return(f), d)

\* a parse failure that goes on with the next chunk (no break)
on_parse_error_continue(f, e, raw_text) ==
    [f EXCEPT !.summary_output =
                  Append(@, <<f.cohorts[f.ci].key, QUESTIONS[f.qi].full, QUESTIONS[f.qi].short,
                              PARSE_ERROR, FAILED_JSON \o e, Slice(raw_text, RAW_EXCERPT_LEN)>>),
              !.pc = "for_chunk"]

\* except (json.JSONDecodeError, ValidationError) as e: summary_output.append([...]); break
on_parse_error(f, e, raw_text) ==
    [f EXCEPT !.summary_output =
                  Append(@, <<f.cohorts[f.ci].key, QUESTIONS[f.qi].full, QUESTIONS[f.qi].short,
                              PARSE_ERROR, FAILED_JSON \o e, Slice(raw_text, RAW_EXCERPT_LEN)>>),
              !.pc = "emit_themes"]

\* the try block of the chunk loop, given raw_text
parse_summary(f, raw_text) ==
    LET parsed_json == json_loads(raw_text)
        summary_resp == parse_obj(parsed_json.value)
    IN  IF ~parsed_json.ok THEN on_parse_error(f, E_JSON, raw_text)
        ELSE IF ~summary_resp.ok THEN on_parse_error(f, E_VALIDATION, raw_text)
        ELSE [f EXCEPT !.themes_accum = @ \o summary_resp.themes, !.pc = "for_chunk"]

\* a str of a JSON answer is a Python str
ToPy(x) == IF x.t = "str" THEN x.v ELSE x

\* a recommendation failure that escapes to the handler's except Exception
on_recs_error_raise(f, e) == internal_error(f, "recommendations")

\* except Exception as e: recommendations_output.append([cohort, f"Failed ...: {e}"])
on_recs_error(f, e) ==
    [f EXCEPT !.recommendations_output = Append(@, <<f.cohorts[f.ci].key, FAILED_RECS \o e>>),
              !.pc = "for_cohort"]

\* the try block of the recommendations, given raw_rec_text
parse_recs(f, raw_rec_text) ==
    LET loaded == json_loads(raw_rec_text)
    IN  IF ~loaded.ok THEN on_recs_error(f, E_JSON)
        ELSE IF loaded.value.t # "list" THEN on_recs_error(f, NOT_A_LIST)
        ELSE [f EXCEPT !.recommendations_output =
                           @ \o [i \in DOMAIN loaded.value.v |->
                                   <<f.cohorts[f.ci].key, ToPy(loaded.value.v[i])>>],
                       !.pc = "for_cohort"]

\* the frame of a request that has reached `for cohort, group in cohorts`
entered(groups) ==
    [pc |-> "for_cohort", status |-> 0, body |-> <<>>, cohorts |-> groups, ci |-> 0, qi |-> 0,
     ki |-> 0, responses |-> <<>>, chunks |-> <<>>, themes_accum |-> <<>>,
     all_text_for_recs |-> <<>>, summary_output |-> <<>>, recommendations_output |-> <<>>]

Assign(f) ==
    /\ pc' = f.pc
    /\ status' = f.status
    /\ body' = f.body
    /\ cohorts' = f.cohorts
    /\ ci' = f.ci
    /\ qi' = f.qi
    /\ ki' = f.ki
    /\ responses' = f.responses
    /\ chunks' = f.chunks
    /\ themes_accum' = f.themes_accum
    /\ all_text_for_recs' = f.all_text_for_recs
    /\ summary_output' = f.summary_output
    /\ recommendations_output' = f.recommendations_output

----------------------------------------------------------------------------
(* Actions.                                                                *)

\* POST /summarize arrives: the handler up to its first generate_content call
Summarize ==
    /\ pc = "start"
    /\ IF DOMAIN payload = {} \/ "rows" \notin DOMAIN payload \/ "headers" \notin DOMAIN payload
       THEN Assign([Frame EXCEPT !.pc = "done", !.status = 400,
                                 !.body = [error |-> "Invalid input data format"]])
       ELSE IF "Cohort" \notin Columns(df)
       THEN Assign(internal_error(Frame, "'Cohort'"))          \* KeyError from groupby
       ELSE Assign(Run(entered(groupby(df, "Cohort")), df))
    /\ UNCHANGED <<payload, calls, lst, n, yielded>>

\* the generate_content call of a summary prompt returns or raises, and the
\* handler goes on to its next call
SummaryCall ==
    /\ pc = "call_summary"
    /\ \E reply \in ModelReplies :
          LET prompt_text == generate_summary_prompt(cohorts[ci].key, QUESTIONS[qi].full, chunks[ki])
              result == call_gemini_api(reply)
          IN  /\ calls' = Append(calls, [prompt |-> prompt_text, reply |-> reply])
              /\ IF result.raised
                 THEN Assign(internal_error(Frame, result.error))
                 ELSE Assign(Run(parse_summary(Frame, result.text), df))
    /\ UNCHANGED <<payload, lst, n, yielded>>

\* the generate_content call of a recommendations prompt returns or raises
RecommendationsCall ==
    /\ pc = "call_rec"
    /\ \E reply \in ModelReplies :
          LET rec_prompt == generate_recommendations_prompt(cohorts[ci].key, all_text_for_recs)
              result == call_gemini_api(reply)
          IN  /\ calls' = Append(calls, [prompt |-> rec_prompt, reply |-> reply])
              /\ IF result.raised
                 THEN Assign(internal_error(Frame, result.error))
                 ELSE Assign(Run(parse_recs(Frame, result.text), df))
    /\ UNCHANGED <<payload, lst, n, yielded>>

\* a direct call list(chunk_list(lst, n))
ChunkList ==
    /\ pc = "chunk_list"
    /\ yielded' = chunk_list(lst, n)
    /\ pc' = "chunk_done"
    /\ UNCHANGED <<payload, status, body, cohorts, ci, qi, ki, responses, chunks, themes_accum,
                   all_text_for_recs, summary_output, recommendations_output, calls, lst, n>>

Idle ==
    /\ status = 0
    /\ body = <<>>
    /\ cohorts = <<>>
    /\ ci = 0
    /\ qi = 0
    /\ ki = 0
    /\ responses = <<>>
    /\ chunks = <<>>
    /\ themes_accum = <<>>
    /\ all_text_for_recs = <<>>
    /\ summary_output = <<>>
    /\ recommendations_output = <<>>
    /\ calls = <<>>
    /\ yielded = <<>>

RECURSIVE SeqsUpTo(_, _)
\* the sequences over S of length at most k
SeqsUpTo(S, k) ==
    IF k = 0 THEN {<<>>}
    ELSE LET shorter == SeqsUpTo(S, k - 1)
         IN  shorter \cup {Append(s, x) : s \in shorter, x \in S}

\* a request is about to be handled
InitRequest ==
    /\ payload \in Payloads
    /\ pc = "start"
    /\ lst = <<>>
    /\ n = 1
    /\ Idle

\* chunk_list is about to be called on its own
InitChunkList ==
    /\ payload = <<>>
    /\ pc = "chunk_list"
    /\ lst \in SeqsUpTo({"a", "b"}, MaxLen)
    /\ n \in 1..MaxN
    /\ Idle

Init == InitRequest \/ InitChunkList

Next == Summarize \/ SummaryCall \/ RecommendationsCall \/ ChunkList

Spec == Init /\ [][Next]_vars

----------------------------------------------------------------------------
(* What the claims speak of.                                               *)

Range(s) == {s[i] : i \in DOMAIN s}

\* s.startswith(prefix)
StartsWith(s, prefix) == Len(s) >= Len(prefix) /\ SubSeq(s, 1, Len(prefix)) = prefix

IsSummaryCall(i, c, qfull) ==
    /\ calls[i].prompt.kind = "summary"
    /\ calls[i].prompt.cohort = c
    /\ calls[i].prompt.question = qfull

\* the invocations made for the pair (c, qfull), in order
SummaryCalls(c, qfull) == SelectSeq([i \in DOMAIN calls |-> i], LAMBDA i : IsSummaryCall(i, c, qfull))

Raised(i) == calls[i].reply.kind = "error"
RateLimited(i) == Raised(i) /\ calls[i].reply.class = "RESOURCE_EXHAUSTED"

\* each text the service may answer with, read as summarize reads it: the
\* stripped text, whether it is JSON, a JSON list, a SummaryResponse, and
\* the themes it then holds
Reading ==
    [s \in ModelTexts |->
        LET raw == Strip(s)
            loaded == json_loads(raw)
            resp == parse_obj(loaded.value)
        IN  [raw |-> raw,
             json |-> loaded.ok,
             list |-> loaded.ok /\ loaded.value.t = "list",
             valid |-> loaded.ok /\ resp.ok,
             themes |-> IF loaded.ok THEN resp.themes ELSE <<>>]]

\* what call_gemini_api handed back from invocation i
RawText(i) == Reading[calls[i].reply.text].raw

\* invocation i answered well-formed JSON of the SummaryResponse shape
ValidSummary(i) == ~Raised(i) /\ Reading[calls[i].reply.text].valid

\* invocation i answered text that does not parse as a SummaryResponse
FailedSummary(i) == ~Raised(i) /\ ~ValidSummary(i)

\* the (cohort, question) pairs invocations were made for
CalledPairs ==
    {<<calls[i].prompt.cohort, calls[i].prompt.question>> :
        i \in {j \in DOMAIN calls : calls[j].prompt.kind = "summary"}}

\* the handler stands at a generate_content call of the pair
AtPair(c, qfull) == pc = "call_summary" /\ cohorts[ci].key = c /\ QUESTIONS[qi].full = qfull

\* the handler has left the chunk loop of the pair and emitted its themes
Completed(c, qfull) ==
    /\ SummaryCalls(c, qfull) # <<>>
    /\ ~AtPair(c, qfull)
    /\ ~(pc = "done" /\ Raised(Len(calls)) /\ IsSummaryCall(Len(calls), c, qfull))

\* the rows of summary_output of the pair: the Parse Error rows, the theme rows
PairRows(c, qfull) == SelectSeq(summary_output, LAMBDA r : r[1] = c /\ r[2] = qfull)
ErrorRows(c, qfull) == SelectSeq(PairRows(c, qfull), LAMBDA r : r[4] = PARSE_ERROR)
ThemeRows(c, qfull) == SelectSeq(PairRows(c, qfull), LAMBDA r : r[4] # PARSE_ERROR)

\* the themes of the pair's valid answers, in chunk order
Accumulated(c, qfull) ==
    LET valid == SelectSeq(SummaryCalls(c, qfull), LAMBDA i : ValidSummary(i))
    IN  Concat([k \in DOMAIN valid |-> Reading[calls[valid[k]].reply.text].themes])

QuestionOf(qfull) == CHOOSE k \in DOMAIN QUESTIONS : QUESTIONS[k].full = qfull

Malformed ==
    \/ "rows" \notin DOMAIN payload
    \/ "headers" \notin DOMAIN payload
    \/ "Cohort" \notin Range(payload.headers)

\* the request was well-formed and its table has been grouped
Grouped == pc \in {"call_summary", "call_rec", "done"} /\ ~Malformed

----------------------------------------------------------------------------
(* C1 *)

\* C1: a generate_content call that fails with a rate-limit-class error is
\* retried with the same prompt; only the third consecutive failure ends the
\* retries, and then a sentinel text is returned, so the request does not end
\* in the handler's exception branch.
C1_RetryOnRateLimit ==
    pc = "done" =>
        \A i \in DOMAIN calls :
            RateLimited(i) =>
                \/ i < Len(calls) /\ calls[i + 1].prompt = calls[i].prompt
                \/ /\ i >= 3
                   /\ RateLimited(i - 1) /\ calls[i - 1].prompt = calls[i].prompt
                   /\ RateLimited(i - 2) /\ calls[i - 2].prompt = calls[i].prompt
                   /\ status # 500

----------------------------------------------------------------------------
(* C2 *)

\* C2: when the answer to a chunk of a (cohort, question) pair is not valid
\* JSON or not of the SummaryResponse shape, exactly one "Parse Error" row is
\* appended for the pair - the cohort, the question, the failure description
\* and the first 200 characters of the raw text - and no invocation is made
\* for a later chunk of the pair.
C2_ParseErrorStopsPair ==
    \A p \in CalledPairs :
        LET made == SummaryCalls(p[1], p[2])
            failed == {k \in DOMAIN made : FailedSummary(made[k])}
            q == QUESTIONS[QuestionOf(p[2])]
        IN  /\ Len(ErrorRows(p[1], p[2])) = Cardinality(failed)
            /\ \A k \in failed :
                  LET raw == RawText(made[k])
                      e == IF Reading[calls[made[k]].reply.text].json THEN E_VALIDATION ELSE E_JSON
                  IN  /\ k = Len(made)
                      /\ ErrorRows(p[1], p[2]) =
                            << <<p[1], q.full, q.short, PARSE_ERROR, FAILED_JSON \o e,
                                 IF Len(raw) > RAW_EXCERPT_LEN
                                 THEN SubSeq(raw, 1, RAW_EXCERPT_LEN) ELSE raw>> >>

\* the first of two chunks was answered with more than 200 characters of
\* broken JSON, and the request has been answered
C2_Witness ==
    /\ pc = "done"
    /\ status = 200
    /\ \E i \in DOMAIN calls :
          /\ calls[i].prompt.kind = "summary"
          /\ Len(calls[i].prompt.responses) = MAX_RESPONSES_PER_CHUNK
          /\ FailedSummary(i)
          /\ Len(RawText(i)) > RAW_EXCERPT_LEN
          /\ \E r \in Range(payload.rows) : r[3] \notin Range(calls[i].prompt.responses)
                                              /\ r[3] # None

----------------------------------------------------------------------------
(* C3 *)

\* the text values of column col in the rows of cohort c
TextsOf(c, col) ==
    {r[ColIndex(df, col)] : r \in {x \in Range(payload.rows) : x[ColIndex(df, "Cohort")] = c}}
        \ {None, <<>>}

\* the question columns of the table in which cohort c has some text
AnsweredBy(c) ==
    {k \in DOMAIN QUESTIONS :
        QUESTIONS[k].col \in Range(payload.headers) /\ TextsOf(c, QUESTIONS[k].col) # {}}

CohortKeys == {r[ColIndex(df, "Cohort")] : r \in Range(payload.rows)} \ {None}

\* the answer to the recommendations prompt of invocation i is no JSON list
FailedRecs(i) ==
    /\ calls[i].prompt.kind = "recommendations"
    /\ ~Raised(i)
    /\ ~Reading[calls[i].reply.text].list

\* C3: a parse failure never aborts sibling processing.  The request ends in
\* the exception branch only when a generate_content call itself raised; and
\* when it ends with the success payload {summary, recommendations}, every
\* question of every cohort that has text was prompted for and every such
\* cohort got its recommendations prompt, whatever failed to parse before; an
\* unparseable recommendations answer leaves one failure row for its cohort.
C3_ParseFailureContained ==
    /\ (Grouped /\ pc = "done" /\ status # 200) => (calls # <<>> /\ Raised(Len(calls)))
    /\ (Grouped /\ pc = "done" /\ status = 200) =>
          /\ DOMAIN body = {"summary", "recommendations"}
          /\ body.summary = summary_output
          /\ body.recommendations = recommendations_output
          /\ \A c \in CohortKeys :
                /\ \A k \in AnsweredBy(c) : SummaryCalls(c, QUESTIONS[k].full) # <<>>
                /\ AnsweredBy(c) # {} =>
                      \E i \in DOMAIN calls :
                          calls[i].prompt.kind = "recommendations" /\ calls[i].prompt.cohort = c
    /\ \A i \in DOMAIN calls :
          FailedRecs(i) =>
              Len(SelectSeq(recommendations_output,
                            LAMBDA r : r[1] = calls[i].prompt.cohort
                                         /\ StartsWith(r[2], FAILED_RECS))) = 1

\* the summary answer and the recommendations answer of the first cohort both
\* failed to parse, a later cohort was prompted for, and the request succeeded
C3_Witness ==
    /\ pc = "done"
    /\ status = 200
    /\ \E i, j, k \in DOMAIN calls :
          /\ i < j /\ j < k
          /\ FailedSummary(i)
          /\ FailedRecs(j)
          /\ calls[j].prompt.cohort = calls[i].prompt.cohort
          /\ calls[k].prompt.cohort # calls[i].prompt.cohort
          /\ calls[k].prompt.kind = "summary"

----------------------------------------------------------------------------
(* C4 *)

\* C4: a request whose payload lacks "rows" or "headers", or whose headers
\* hold no "Cohort" column, is answered 400 with a body {"error": ...} and
\* makes no invocation.
C4_MalformedIs400 ==
    (pc = "done" /\ Malformed) => (status = 400 /\ DOMAIN body = {"error"} /\ calls = <<>>)

----------------------------------------------------------------------------
(* C5 *)

\* C5: whatever a row carries in the Cohort column, it is in exactly one of
\* the groups that are iterated, exactly once.
C5_GroupsPartitionRows ==
    Grouped =>
        \A i \in DOMAIN payload.rows :
            /\ Cardinality({g \in DOMAIN cohorts : i \in Range(cohorts[g].index)}) = 1
            /\ \A g \in DOMAIN cohorts :
                  Cardinality({k \in DOMAIN cohorts[g].index : cohorts[g].index[k] = i}) <= 1

----------------------------------------------------------------------------
(* C6 *)

\* C6: a null or empty-string value is in no response batch: it is in no
\* summary prompt and not in the feedback of a recommendations prompt.
C6_NoEmptyResponse ==
    \A i \in DOMAIN calls :
        \A k \in DOMAIN calls[i].prompt.responses :
            calls[i].prompt.responses[k] \notin {None, <<>>}

----------------------------------------------------------------------------
(* C7 *)

\* cs splits l into chunks of 1 to size elements that concatenate to l
SplitsInto(l, size, cs) ==
    /\ Concat(cs) = l
    /\ \A k \in DOMAIN cs : Len(cs[k]) >= 1 /\ Len(cs[k]) <= size
    /\ l = <<>> => cs = <<>>

\* C7: the chunks chunk_list yields concatenate to its input, each holds at
\* least 1 and at most n elements, and an empty input yields none; in
\* summarize, with n = 20, each response of a batch lies in exactly one chunk.
C7_ChunksSplitInput ==
    /\ pc = "chunk_done" => SplitsInto(lst, n, yielded)
    /\ pc = "call_summary" =>
          /\ SplitsInto(responses, MAX_RESPONSES_PER_CHUNK, chunks)
          /\ \A r \in Range(responses) :
                Cardinality({k \in DOMAIN chunks : r \in Range(chunks[k])}) = 1

\* a batch of more than 20 responses stands split into several chunks
C7_Witness ==
    /\ pc = "call_summary"
    /\ Len(responses) > MAX_RESPONSES_PER_CHUNK
    /\ Len(chunks) > 1
    /\ Len(chunks[Len(chunks)]) < MAX_RESPONSES_PER_CHUNK

----------------------------------------------------------------------------
(* C8 *)

\* the row the claim describes for a theme t of the pair (c, q)
RowFor(c, q, t) == <<c, q.full, q.short, t.theme, t.summary, Join(<<"\n">>, t.samples)>>

\* C8 as stated: once a pair is done with, every theme of every well-formed
\* answer to it has its row in summary_output, however many themes there are.
C8_RowPerTheme ==
    \A p \in CalledPairs :
        Completed(p[1], p[2]) =>
            \A k \in DOMAIN Accumulated(p[1], p[2]) :
                RowFor(p[1], QUESTIONS[QuestionOf(p[2])], Accumulated(p[1], p[2])[k])
                    \in Range(summary_output)

\* C8, amended: once a pair is done with, its theme rows are the rows of the
\* first three themes of its well-formed answers, one row per theme, in
\* order, each carrying the cohort, the question's full text and short
\* label, the theme's title and summary verbatim and its samples joined by
\* newlines.
C8_RowPerThemeUpToThree ==
    \A p \in CalledPairs :
        Completed(p[1], p[2]) =>
            LET acc == Accumulated(p[1], p[2])
            IN  ThemeRows(p[1], p[2]) =
                    [k \in 1..(IF Len(acc) > MAX_THEMES THEN MAX_THEMES ELSE Len(acc)) |->
                        RowFor(p[1], QUESTIONS[QuestionOf(p[2])], acc[k])]

\* a pair was answered with well-formed JSON of two themes and both rows are out
C8_Witness ==
    \E p \in CalledPairs :
        /\ Completed(p[1], p[2])
        /\ Len(Accumulated(p[1], p[2])) = MAX_THEMES - 1
        /\ Len(ThemeRows(p[1], p[2])) = MAX_THEMES - 1
        /\ \E r \in Range(ThemeRows(p[1], p[2])) : "\n" \in Range(r[6])

----------------------------------------------------------------------------
(* C9 *)

\* rows i < j of a table are in cohort-then-question order
InOrder(a, b) ==
    /\ ~StrLess(b[1], a[1])
    /\ a[1] = b[1] => QuestionOf(a[2]) <= QuestionOf(b[2])

\* C9: summary rows come in ascending lexicographic order of the cohort
\* identifier and, within a cohort, in the order of QUESTIONS; recommendation
\* rows come in the same ascending cohort order, failure rows included; and
\* that is the order of the returned payload.
C9_TraversalOrder ==
    /\ \A i, j \in DOMAIN summary_output :
          i < j => InOrder(summary_output[i], summary_output[j])
    /\ \A i, j \in DOMAIN recommendations_output :
          i < j => ~StrLess(recommendations_output[j][1], recommendations_output[i][1])
    /\ (pc = "done" /\ status = 200) =>
          body.summary = summary_output /\ body.recommendations = recommendations_output

\* two cohorts whose rows arrive in descending order were both summarised for
\* two questions, and a recommendations failure row is among the rows
C9_Witness ==
    /\ pc = "done"
    /\ status = 200
    /\ Len(payload.rows) > 1
    /\ payload.rows[1][2] = B
    /\ \E i, j \in DOMAIN body.summary :
          /\ i < j
          /\ body.summary[i][1] = AC /\ body.summary[i][2] = Q2
          /\ body.summary[j][1] = B /\ body.summary[j][2] = Q1
    /\ Len(body.recommendations) > 1
    /\ body.recommendations[1][1] = AC
    /\ StartsWith(body.recommendations[1][2], FAILED_RECS)
    /\ body.recommendations[Len(body.recommendations)][1] = B

----------------------------------------------------------------------------
(* C10 *)

\* C10: at any time a pair has at most 3 theme rows and at most 1 Parse Error
\* row in summary_output; once the pair is done with, its theme rows are
\* those of the first three themes accumulated, in chunk order, from the
\* chunks answered well before any failure; and a Parse Error row of the
\* pair comes before its theme rows.
C10_PairOutputBound ==
    \A p \in CalledPairs :
        LET rows == PairRows(p[1], p[2])
            acc == Accumulated(p[1], p[2])
        IN  /\ Len(ThemeRows(p[1], p[2])) <= MAX_THEMES
            /\ Len(ErrorRows(p[1], p[2])) <= 1
            /\ Completed(p[1], p[2]) =>
                  /\ Len(ThemeRows(p[1], p[2])) = Min(MAX_THEMES, Len(acc))
                  /\ \A k \in DOMAIN ThemeRows(p[1], p[2]) :
                        ThemeRows(p[1], p[2])[k][4] = acc[k].theme
            /\ \A i, j \in DOMAIN rows :
                  (rows[i][4] # PARSE_ERROR /\ rows[j][4] = PARSE_ERROR) => j < i

\* a pair's first chunk gave more than three themes and its second chunk
\* failed to parse: the Parse Error row stands before three theme rows
C10_Witness ==
    \E p \in CalledPairs :
        /\ Completed(p[1], p[2])
        /\ Len(SummaryCalls(p[1], p[2])) > 1
        /\ Len(Accumulated(p[1], p[2])) > MAX_THEMES
        /\ PairRows(p[1], p[2])[1][4] = PARSE_ERROR
        /\ Len(ThemeRows(p[1], p[2])) = MAX_THEMES

====
